---------------------------- MODULE Spec2Model ----------------------------
(***************************************************************************)
(* A model of the C <-> C++ heuristic converter (src/cconv/converter.py).  *)
(*                                                                         *)
(* Source text is a TLA+ string, i.e. a sequence of characters; every      *)
(* regular expression of the source is written as a sequence of pattern    *)
(* nodes and matched by MatchSeq, a backtracking matcher with the          *)
(* priorities of Python's re module (greedy / lazy repetition, ordered     *)
(* alternatives, capture groups, back references, negative lookahead,      *)
(* ^, $ and \b).  One call of convert_c_to_cpp / convert_cpp_to_c is a     *)
(* run of the state machine: pc is the position inside the call, code the  *)
(* local variable `code`, types / allocs / realloc_names the call's local  *)
(* dictionaries.                                                           *)
(***************************************************************************)
EXTENDS Naturals, Integers, Sequences, FiniteSets, TLC

(***************************************************************************)
(* Characters and character classes of the re module.                      *)
(***************************************************************************)
Lower == {"a","b","c","d","e","f","g","h","i","j","k","l","m",
          "n","o","p","q","r","s","t","u","v","w","x","y","z"}

Upper == {"A","B","C","D","E","F","G","H","I","J","K","L","M",
          "N","O","P","Q","R","S","T","U","V","W","X","Y","Z"}

Digit == {"0","1","2","3","4","5","6","7","8","9"}

\* [A-Za-z_]
IdStart == Lower \cup Upper \cup {"_"}

\* [A-Za-z0-9_] and \w
WordCh == IdStart \cup Digit

\* \s (the vertical tab has no TLA+ escape; no input of the model holds one)
Space == {" ", "\t", "\n", "\r", "\f"}

NL == "\n"

BSl == "\\"

DQ == "\""

At(s, i) == SubSeq(s, i, i)

\* s[i:] of Python, 1-based
From(s, i) == SubSeq(s, i, Len(s))

\* s.startswith(w) at offset i
HasAt(s, i, w) ==
    /\ i + Len(w) - 1 <= Len(s)
    /\ SubSeq(s, i, i + Len(w) - 1) = w

StartsWith(s, w) == HasAt(s, 1, w)

EndsWith(s, w) == Len(w) <= Len(s) /\ HasAt(s, Len(s) - Len(w) + 1, w)

(***************************************************************************)
(* Pattern nodes.  A pattern is a sequence of nodes.                       *)
(***************************************************************************)
Lit(w) == [t |-> "lit", w |-> w]

Cls(S) == [t |-> "cls", s |-> S, neg |-> FALSE]

NCls(S) == [t |-> "cls", s |-> S, neg |-> TRUE]

\* X* , X+ , X*? on a one-character class X (every repetition of the source
\* is of this shape)
Rep(S, neg, min, lazy) == [t |-> "rep", s |-> S, neg |-> neg, min |-> min, lazy |-> lazy]

Opt(r) == [t |-> "opt", r |-> r]

Alt(a, b) == [t |-> "alt", a |-> a, b |-> b]

Grp(k, r) == [t |-> "grp", k |-> k, r |-> r]

Ref(k) == [t |-> "ref", k |-> k]

NotAhead(r) == [t |-> "nla", r |-> r]

\* ^ and $ ; m is re.MULTILINE
Bol(m) == [t |-> "bol", m |-> m]

Eol(m) == [t |-> "eol", m |-> m]

WordB == [t |-> "wb"]

\* the end of the string (what re.fullmatch adds to a pattern)
EndOfText == [t |-> "end"]

\* \s* and \s+
Ws == Rep(Space, FALSE, 0, FALSE)

Ws1 == Rep(Space, FALSE, 1, FALSE)

\* [A-Za-z_][A-Za-z0-9_]*  (also written [A-Za-z_]\w*)
Ident == <<Cls(IdStart), Rep(WordCh, FALSE, 0, FALSE)>>

\* (?:struct\s+)?
OptStruct == Opt(<<Lit("struct"), Ws1>>)

(***************************************************************************)
(* The matcher.  g[k] = <<start, end>> is the span of group k (end is      *)
(* exclusive); <<0, 0>> is a group that did not take part (None).          *)
(***************************************************************************)
NoGroups == << <<0, 0>>, <<0, 0>>, <<0, 0>> >>

NoMatch == [ok |-> FALSE, e |-> 0, g |-> NoGroups]

InCls(n, ch) == IF n.neg THEN ch \notin n.s ELSE ch \in n.s

\* the element of a set of one element.  The({e : x \in {v}}) is e with x
\* standing for the value of v, computed once.
The(S) == CHOOSE x \in S : TRUE

\* the least element of a non-empty set of numbers
Min(S) == CHOOSE j \in S : \A k \in S : j <= k

\* the greatest element of a non-empty set of numbers
Max(S) == CHOOSE j \in S : \A k \in S : j >= k

\* the longest run of characters of class n from position i
RunLen(n, s, i) ==
    Min({j \in i..(Len(s) + 1) : j = Len(s) + 1 \/ ~InCls(n, At(s, j))}) - i

IsWordAt(s, i) == i >= 1 /\ i <= Len(s) /\ At(s, i) \in WordCh

GroupSet(g, k) == g[k][2] > 0

\* m.group(k); None is the empty string here, GroupSet tells them apart
GroupText(s, g, k) == IF GroupSet(g, k) THEN SubSeq(s, g[k][1], g[k][2] - 1) ELSE ""

RECURSIVE MatchSeq(_, _, _, _)
RECURSIVE MatchRun(_, _, _, _, _, _, _)

\* try the rest of the pattern after k repetitions, k moving from `k` to
\* `last` by `step` (downwards: greedy, upwards: lazy)
MatchRun(rest, s, i, g, k, last, step) ==
    LET r == MatchSeq(rest, s, i + k, g)
    IN  IF r.ok THEN r
        ELSE IF k = last THEN NoMatch
        ELSE MatchRun(rest, s, i, g, k + step, last, step)

MatchSeq(rs, s, i, g) ==
    IF Len(rs) = 0 THEN [ok |-> TRUE, e |-> i, g |-> g]
    ELSE
    LET n == Head(rs)
        rest == Tail(rs)
    IN  CASE n.t = "lit" ->
               IF HasAt(s, i, n.w) THEN MatchSeq(rest, s, i + Len(n.w), g) ELSE NoMatch
          [] n.t = "cls" ->
               IF i <= Len(s) /\ InCls(n, At(s, i))
               THEN MatchSeq(rest, s, i + 1, g) ELSE NoMatch
          [] n.t = "rep" ->
               LET m == RunLen(n, s, i)
               IN  IF m < n.min THEN NoMatch
                   ELSE IF n.lazy THEN MatchRun(rest, s, i, g, n.min, m, 1)
                   ELSE MatchRun(rest, s, i, g, m, n.min, -1)
          [] n.t = "opt" ->
               LET r == MatchSeq(n.r \o rest, s, i, g)
               IN  IF r.ok THEN r ELSE MatchSeq(rest, s, i, g)
          [] n.t = "alt" ->
               LET r == MatchSeq(n.a \o rest, s, i, g)
               IN  IF r.ok THEN r ELSE MatchSeq(n.b \o rest, s, i, g)
          [] n.t = "grp" ->
               MatchSeq(<<[t |-> "open", k |-> n.k]>> \o n.r
                           \o <<[t |-> "close", k |-> n.k]>> \o rest, s, i, g)
          [] n.t = "open" ->
               MatchSeq(rest, s, i, [g EXCEPT ![n.k] = <<i, 0>>])
          [] n.t = "close" ->
               MatchSeq(rest, s, i, [g EXCEPT ![n.k] = <<g[n.k][1], i>>])
          [] n.t = "ref" ->
               IF GroupSet(g, n.k) /\ HasAt(s, i, GroupText(s, g, n.k))
               THEN MatchSeq(rest, s, i + Len(GroupText(s, g, n.k)), g)
               ELSE NoMatch
          [] n.t = "nla" ->
               IF MatchSeq(n.r, s, i, g).ok THEN NoMatch ELSE MatchSeq(rest, s, i, g)
          [] n.t = "bol" ->
               IF i = 1 \/ (n.m /\ At(s, i - 1) = NL)
               THEN MatchSeq(rest, s, i, g) ELSE NoMatch
          [] n.t = "eol" ->
               IF i = Len(s) + 1 \/ (n.m /\ At(s, i) = NL)
               THEN MatchSeq(rest, s, i, g) ELSE NoMatch
          [] n.t = "wb" ->
               IF IsWordAt(s, i - 1) # IsWordAt(s, i)
               THEN MatchSeq(rest, s, i, g) ELSE NoMatch
          [] n.t = "end" ->
               IF i = Len(s) + 1 THEN MatchSeq(rest, s, i, g) ELSE NoMatch

\* the positions of s at which pattern re matches
MatchStarts(re, s) == {j \in 1..(Len(s) + 1) : MatchSeq(re, s, j, NoGroups).ok}

RECURSIVE PickMatches(_, _, _, _)
\* the scan of re.finditer from position i: the leftmost match, then the
\* leftmost one that starts at or after its end, and so on
PickMatches(re, s, starts, i) ==
    LET later == {j \in starts : j >= i}
    IN  IF later = {} THEN <<>>
        ELSE The({<<[b |-> b, e |-> r.e, g |-> r.g]>>
                      \o PickMatches(re, s, starts, IF r.e > b THEN r.e ELSE b + 1) :
                  <<b, r>> \in {<<Min(later), MatchSeq(re, s, Min(later), NoGroups)>>}})

\* re.finditer: the non-overlapping matches of pattern re in s from
\* position i, left to right, each [b, e, g] (no pattern of the source
\* matches the empty string)
FindAll(re, s, i) == PickMatches(re, s, MatchStarts(re, s), i)

\* re.search(...) is not None
Search(re, s) == MatchStarts(re, s) # {}


\* re.match(re, s)
Match(re, s) == MatchSeq(re, s, 1, NoGroups)

\* re.fullmatch(re, s)
FullMatch(re, s) == MatchSeq(re \o <<EndOfText>>, s, 1, NoGroups)

\* a left fold of Step over the sequence ms
Fold(Step(_, _), init, ms) ==
    LET f[k \in 0..Len(ms)] == IF k = 0 THEN init ELSE Step(f[k - 1], ms[k])
    IN  f[Len(ms)]

\* re.sub(re, repl, s) with a function repl that reads and updates a local
\* state st (the closure's dictionaries): Repl(m, st) = [text, st].
\* The result is [code, st].
ReSubSt(re, Repl(_, _), s, st0) ==
    LET Step(acc, m) ==
            The({[out |-> acc.out \o SubSeq(s, acc.pos, m.b - 1) \o r.text,
                  pos |-> m.e, st |-> r.st] :
                 r \in {Repl(m, acc.st)}})
    IN  The({[code |-> fin.out \o From(s, fin.pos), st |-> fin.st] :
             fin \in {Fold(Step, [out |-> "", pos |-> 1, st |-> st0],
                           FindAll(re, s, 1))}})

\* re.sub(re, repl, s) with a repl that has no state
ReSub(re, Repl(_), s) ==
    LET R(m, st) == [text |-> Repl(m), st |-> st]
    IN  ReSubSt(re, R, s, 0).code

\* re.split(re, s) for a pattern with the one capture group 1: the text
\* between the matches, interleaved with the matches' group 1
ReSplit1(re, s) ==
    LET Step(acc, m) ==
            [out |-> acc.out \o <<SubSeq(s, acc.pos, m.b - 1), GroupText(s, m.g, 1)>>,
             pos |-> m.e]
    IN  The({fin.out \o <<From(s, fin.pos)>> :
             fin \in {Fold(Step, [out |-> <<>>, pos |-> 1], FindAll(re, s, 1))}})

(***************************************************************************)
(* str methods.                                                            *)
(***************************************************************************)
\* the first position >= i whose character is not in C
LSkip(s, i, C) == Min({j \in i..(Len(s) + 1) : j = Len(s) + 1 \/ At(s, j) \notin C})

\* the last position <= j whose character is not in C
RSkip(s, j, C) == Max({k \in 0..j : k = 0 \/ At(s, k) \notin C})

\* s.lstrip(chars)
LStripSet(s, C) == From(s, LSkip(s, 1, C))

\* s.strip(chars)
StripSet(s, C) == LET t == LStripSet(s, C) IN SubSeq(t, 1, RSkip(t, Len(t), C))

\* s.strip()
Strip(s) == StripSet(s, Space)

\* s.find(w, i): the first position >= i at which w stands, 0 when none
IndexOf(s, w, i) ==
    LET J == {j \in i..Len(s) : HasAt(s, j, w)}
    IN  IF J = {} THEN 0 ELSE Min(J)

RECURSIVE SplitOn(_, _, _)
\* s.split(sep), the current piece starting at b
SplitOn(s, sep, b) ==
    LET j == IndexOf(s, sep, b)
    IN  IF j = 0 THEN <<From(s, b)>>
        ELSE <<SubSeq(s, b, j - 1)>> \o SplitOn(s, sep, j + Len(sep))

\* s.split(sep), sep not empty
Split(s, sep) == SplitOn(s, sep, 1)

RECURSIVE ReplaceFrom(_, _, _, _)
ReplaceFrom(s, old, new, b) ==
    LET j == IndexOf(s, old, b)
    IN  IF j = 0 THEN From(s, b)
        ELSE SubSeq(s, b, j - 1) \o new \o ReplaceFrom(s, old, new, j + Len(old))

\* s.replace(old, new), old not empty
Replace(s, old, new) == ReplaceFrom(s, old, new, 1)

\* sep.join(parts)
Join(parts, sep) ==
    LET Step(acc, p) == IF acc.first THEN [first |-> FALSE, out |-> p]
                        ELSE [first |-> FALSE, out |-> acc.out \o sep \o p]
    IN  Fold(Step, [first |-> TRUE, out |-> ""], parts).out

\* the line boundaries of str.splitlines that have a TLA+ escape
LineEnds == {"\n", "\r", "\f"}

RECURSIVE SplitLinesFrom(_, _)
\* the lines of s from position b on
SplitLinesFrom(s, b) ==
    LET j == LSkip(s, b, {At(s, k) : k \in 1..Len(s)} \ LineEnds)
    IN  IF b > Len(s) THEN <<>>
        ELSE IF j > Len(s) THEN <<From(s, b)>>
        ELSE <<SubSeq(s, b, j - 1)>>
                 \o SplitLinesFrom(s, IF HasAt(s, j, "\r\n") THEN j + 2 ELSE j + 1)

\* s.splitlines()
SplitLines(s) == SplitLinesFrom(s, 1)

\* a dict: a function on its set of keys
EmptyDict == [k \in {} |-> ""]

DictPut(d, k, v) == (k :> v) @@ d

\* d.get(k), None being the empty string
DictGet(d, k) == IF k \in DOMAIN d THEN d[k] ELSE ""

SeqMap(Op(_), xs) == [k \in 1..Len(xs) |-> Op(xs[k])]

\* "*" * n
RECURSIVE Stars(_)
Stars(n) == IF n = 0 THEN "" ELSE "*" \o Stars(n - 1)

(***************************************************************************)
(* Include lines (converter.py lines 8-10).                                *)
(***************************************************************************)
\* ^\s*#\s*include\s*<stdio\.h>\s*$   re.MULTILINE
include_stdio ==
    <<Bol(TRUE), Ws, Lit("#"), Ws, Lit("include"), Ws, Lit("<stdio.h>"), Ws, Eol(TRUE)>>

\* ^\s*#\s*include\s*<iostream>\s*$   re.MULTILINE
include_iostream ==
    <<Bol(TRUE), Ws, Lit("#"), Ws, Lit("include"), Ws, Lit("<iostream>"), Ws, Eol(TRUE)>>

\* ^\s*#\s*include\s*<stdlib\.h>\s*$   re.MULTILINE (compiled, never used)
include_stdlib ==
    <<Bol(TRUE), Ws, Lit("#"), Ws, Lit("include"), Ws, Lit("<stdlib.h>"), Ws, Eol(TRUE)>>

(***************************************************************************)
(* _collect_typedefs and _infer_decl_types.                                *)
(***************************************************************************)
\* typedef\s+struct\s+([A-Za-z_]\w*)\s+([A-Za-z_]\w*)\s*;
re_typedef_struct ==
    <<Lit("typedef"), Ws1, Lit("struct"), Ws1, Grp(1, Ident), Ws1, Grp(2, Ident),
      Ws, Lit(";")>>

\* typedef\s+struct\s+([A-Za-z_]\w*)\s*\{[^}]*\}\s*([A-Za-z_]\w*)\s*;
re_typedef_struct_body ==
    <<Lit("typedef"), Ws1, Lit("struct"), Ws1, Grp(1, Ident), Ws, Lit("{"),
      Rep({"}"}, TRUE, 0, FALSE), Lit("}"), Ws, Grp(2, Ident), Ws, Lit(";")>>

\* typedef\s+((?:struct\s+)?[A-Za-z_]\w*)\s+([A-Za-z_]\w*)\s*;
re_typedef_base ==
    <<Lit("typedef"), Ws1, Grp(1, <<OptStruct>> \o Ident), Ws1, Grp(2, Ident),
      Ws, Lit(";")>>

_collect_typedefs(code) ==
    LET PutStruct(d, m) ==
            DictPut(d, GroupText(code, m.g, 2), "struct " \o GroupText(code, m.g, 1))
        SetDefault(d, m) ==
            IF GroupText(code, m.g, 2) \in DOMAIN d THEN d
            ELSE DictPut(d, GroupText(code, m.g, 2), GroupText(code, m.g, 1))
        d1 == Fold(PutStruct, EmptyDict, FindAll(re_typedef_struct, code, 1))
        d2 == Fold(PutStruct, d1, FindAll(re_typedef_struct_body, code, 1))
    IN  Fold(SetDefault, d2, FindAll(re_typedef_base, code, 1))

\* struct\s+([A-Za-z_]\w*)\s*\{
re_struct_def == <<Lit("struct"), Ws1, Grp(1, Ident), Ws, Lit("{")>>

\* ^(?P<type>(?:struct\s+)?[A-Za-z_]\w*)\s+(?P<rest>[^;]+);   re.MULTILINE
decl_re ==
    <<Bol(TRUE), Grp(1, <<OptStruct>> \o Ident), Ws1,
      Grp(2, <<Rep({";"}, TRUE, 1, FALSE)>>), Lit(";")>>

PrimitiveTypes == {"int", "long", "float", "double", "char"}

\* the loop over one declarator p of a declaration of type t (lines 61-74)
DeclEntry(types, typedefs, t, p) ==
    LET RECURSIVE Unstar(_, _)
        \* the while q.startswith("*") loop: <<stars, q>>
        Unstar(n, q) ==
            IF StartsWith(q, "*") THEN Unstar(n + 1, LStripSet(From(q, 2), Space))
            ELSE <<n, q>>
        base == IF t \in DOMAIN typedefs THEN typedefs[t] ELSE t
        \* u is <<stars, q>>, nm the match of the name at the start of q
        Entry1(u, nm) ==
            IF ~nm.ok THEN types
            ELSE DictPut(types, GroupText(u[2], nm.g, 1), base \o Stars(u[1]))
    IN  The({Entry1(u, Match(<<Grp(1, Ident)>>, u[2])) : u \in {Unstar(0, p)}})

\* the elements of a sequence
Range(xs) == {xs[k] : k \in 1..Len(xs)}

\* lines 44-47
BaseTypes(code, typedefs) ==
    PrimitiveTypes
        \cup {"struct " \o GroupText(code, ms.g, 1) :
                 ms \in Range(FindAll(re_struct_def, code, 1))}
        \cup DOMAIN typedefs

\* lines 50-74, given typedefs and base_types
InferDecls(code, typedefs, base_types) ==
    LET OneDecl(types, m) ==
            LET t == GroupText(code, m.g, 1)
                parts == SeqMap(Strip, Split(GroupText(code, m.g, 2), ","))
                OnePart(ty, p) == DeclEntry(ty, typedefs, t, p)
            IN  IF t \notin base_types /\ ~(t \in DOMAIN typedefs \/ StartsWith(t, "struct "))
                THEN types
                ELSE Fold(OnePart, types, parts)
    IN  Fold(OneDecl, EmptyDict, FindAll(decl_re, code, 1))

_infer_decl_types(code) ==
    The({InferDecls(code, typedefs, BaseTypes(code, typedefs)) :
         typedefs \in {_collect_typedefs(code)}})

(***************************************************************************)
(* _fmt_for_type and _expr_ctype.                                          *)
(***************************************************************************)
FmtOfBase(base) ==
    CASE base = "int" -> "%d"
      [] base = "long" -> "%ld"
      [] base = "float" -> "%f"
      [] base = "double" -> "%lf"
      [] base = "char" -> "%c"
      [] OTHER -> "%d"

_fmt_for_type(ctype) ==
    IF ctype = "char*" THEN "%s"
    ELSE IF ctype \in PrimitiveTypes THEN FmtOfBase(ctype)
    ELSE FmtOfBase(Replace(ctype, "*", ""))

\* \*\s*\(?\s*([A-Za-z_][A-Za-z0-9_]*)\s*\)?
re_deref ==
    <<Lit("*"), Ws, Opt(<<Lit("(")>>), Ws, Grp(1, Ident), Ws, Opt(<<Lit(")")>>)>>

\* ([A-Za-z_][A-Za-z0-9_]*)\s*\[.+\]
re_index ==
    <<Grp(1, Ident), Ws, Lit("["), Rep({NL}, TRUE, 1, FALSE), Lit("]")>>

\* the type of an expression, "" being None
_expr_ctype(expr0, types) ==
    LET expr == Strip(expr0)
        Pointee(v) ==
            IF DictGet(types, v) # "" /\ EndsWith(DictGet(types, v), "*")
            THEN SubSeq(DictGet(types, v), 1, Len(DictGet(types, v)) - 1)
            ELSE ""
    IN  IF FullMatch(Ident, expr).ok THEN DictGet(types, expr)
        ELSE The({IF m1.ok THEN Pointee(GroupText(expr, m1.g, 1))
                  ELSE IF m2.ok THEN Pointee(GroupText(expr, m2.g, 1))
                  ELSE "" :
                  m1 \in {FullMatch(re_deref, expr)}, m2 \in {FullMatch(re_index, expr)}})

(***************************************************************************)
(* _split_printf_args, _convert_printf_to_cout, _convert_scanf_to_cin.     *)
(***************************************************************************)
\* the loop body of _split_printf_args for the character at position k
SplitArgsStep(args, acc, k) ==
    LET ch == At(args, k)
    IN  IF ch \in {DQ, "'"}
        THEN [acc EXCEPT !.buf = @ \o ch,
                         !.q = IF acc.q = "" THEN ch ELSE IF acc.q = ch THEN "" ELSE @]
        ELSE IF ch = "(" /\ acc.q = ""
        THEN [acc EXCEPT !.buf = @ \o ch, !.depth = @ + 1]
        ELSE IF ch = ")" /\ acc.q = "" /\ acc.depth > 0
        THEN [acc EXCEPT !.buf = @ \o ch, !.depth = @ - 1]
        ELSE IF ch = "," /\ acc.q = "" /\ acc.depth = 0
        THEN [acc EXCEPT !.parts = Append(@, Strip(acc.buf)), !.buf = ""]
        ELSE [acc EXCEPT !.buf = @ \o ch]

_split_printf_args(args) ==
    LET Step(acc, k) == SplitArgsStep(args, acc, k)
    IN  The({IF fin.buf # "" THEN Append(fin.parts, Strip(fin.buf)) ELSE fin.parts :
             fin \in {Fold(Step, [parts |-> <<>>, buf |-> "", q |-> "", depth |-> 0],
                           [k \in 1..Len(args) |-> k])}})

\* What a function call gives: a returned string, or a raised exception.
Ret(v) == [exc |-> FALSE, text |-> v]

Raise == [exc |-> TRUE, text |-> ""]

\* xs[0] of a Python list: IndexError on the empty list
Item0(xs) == IF Len(xs) = 0 THEN Raise ELSE Ret(xs[1])

\* %[0-9]*\.?[0-9]*[dlfcsg]
re_printf_spec ==
    <<Lit("%"), Rep(Digit, FALSE, 0, FALSE), Opt(<<Lit(".")>>),
      Rep(Digit, FALSE, 0, FALSE), Cls({"d", "l", "f", "c", "s", "g"})>>

\* printf\s*\((.*)\)\s*;\s*   re.DOTALL
re_printf_call ==
    <<Lit("printf"), Ws, Lit("("), Grp(1, <<Rep({}, TRUE, 0, FALSE)>>), Lit(")"),
      Ws, Lit(";"), Ws>>

\* the loop body over the tokens of the format (lines 169-183); vars is
\* what var_iter has left
PrintfTokStep(acc, tok) ==
    IF tok = "" THEN acc
    ELSE IF StartsWith(tok, "%")
    THEN IF Len(acc.vars) = 0
         THEN [acc EXCEPT !.out = @ \o " << \"" \o tok \o "\""]
         ELSE [acc EXCEPT !.out = @ \o " << (" \o Head(acc.vars) \o ")",
                          !.vars = Tail(@)]
    ELSE LET nl == EndsWith(tok, "\\n")
             t2 == IF nl THEN SubSeq(tok, 1, Len(tok) - 2) ELSE tok
             esc == Replace(Replace(t2, BSl, "\\\\"), DQ, "\\\"")
         IN  [acc EXCEPT !.newline = @ \/ nl,
                         !.out = IF t2 # "" THEN @ \o " << \"" \o esc \o "\"" ELSE @]

\* lines 158-186, from fmt = args[0] on
PrintfBody(call, args) ==
    LET fmt == Item0(args).text
        fmt_str == StripSet(Strip(fmt), {DQ})
        tokens == ReSplit1(<<Grp(1, re_printf_spec)>>, fmt_str)
    IN  IF Item0(args).exc THEN Raise
        ELSE IF ~(StartsWith(fmt, DQ) \/ StartsWith(fmt, "'")) THEN Ret(call)
        ELSE The({Ret((IF fin.newline THEN fin.out \o " << std::endl" ELSE fin.out)
                          \o ";") :
                  fin \in {Fold(PrintfTokStep,
                                [out |-> "std::cout", vars |-> Tail(args),
                                 newline |-> FALSE],
                                tokens)}})

\* _convert_printf_to_cout without the check of line 156 (`if not args`)
PrintfNoArgsCheck(call) ==
    The({IF ~m.ok THEN Ret(call)
         ELSE PrintfBody(call, _split_printf_args(GroupText(call, m.g, 1))) :
         m \in {Match(re_printf_call, call)}})

_convert_printf_to_cout(call) ==
    LET Args(m) ==
            The({IF Len(args) = 0 THEN Ret(call) ELSE PrintfBody(call, args) :
                 args \in {_split_printf_args(GroupText(call, m.g, 1))}})
    IN  The({IF ~m.ok THEN Ret(call) ELSE Args(m) : m \in {Match(re_printf_call, call)}})

\* scanf\s*\((.*)\)\s*;\s*   re.DOTALL
re_scanf_call ==
    <<Lit("scanf"), Ws, Lit("("), Grp(1, <<Rep({}, TRUE, 0, FALSE)>>), Lit(")"),
      Ws, Lit(";"), Ws>>

\* %[0-9]*\.?[0-9]*[dlfcs]  (the specs list of _convert_scanf_to_cin)
re_scanf_spec ==
    <<Lit("%"), Rep(Digit, FALSE, 0, FALSE), Opt(<<Lit(".")>>),
      Rep(Digit, FALSE, 0, FALSE), Cls({"d", "l", "f", "c", "s"})>>

\* a.lstrip('&').strip()
ScanfTarget(a) == Strip(LStripSet(a, {"&"}))

\* the loop of lines 205-206 if it paired each specifier with a variable
ScanfChainBySpecs(specs, vars) ==
    LET Step(out, v) == out \o " >> (" \o v \o ")"
    IN  Fold(Step, "std::cin", SubSeq(vars, 1, Min({Len(specs), Len(vars)})))

\* the loop of lines 205-206 over vars; specs is computed and not read
ScanfChain(specs, vars) ==
    LET Step(out, v) == out \o " >> (" \o v \o ")"
    IN  Fold(Step, "std::cin", vars)

\* lines 197-208, from fmt = args[0] on
ScanfBody(call, args) ==
    LET fmt == Item0(args).text
        fmt_str == StripSet(Strip(fmt), {DQ})
        specs == FindAll(re_scanf_spec, fmt_str, 1)
        vars == SeqMap(ScanfTarget, Tail(args))
    IN  IF Item0(args).exc THEN Raise
        ELSE IF ~(StartsWith(fmt, DQ) \/ StartsWith(fmt, "'")) THEN Ret(call)
        ELSE Ret(ScanfChain(specs, vars) \o ";")

_convert_scanf_to_cin(call, types) ==
    LET Args(m) ==
            The({IF Len(args) = 0 THEN Ret(call) ELSE ScanfBody(call, args) :
                 args \in {_split_printf_args(GroupText(call, m.g, 1))}})
    IN  The({IF ~m.ok THEN Ret(call) ELSE Args(m) : m \in {Match(re_scanf_call, call)}})

(***************************************************************************)
(* _convert_new_delete_to_malloc_free (C++ -> C).                          *)
(***************************************************************************)
\* new\s+([A-Za-z_][A-Za-z0-9_]*)\s*\[\s*([^\]]+)\s*\]
re_new_array ==
    <<Lit("new"), Ws1, Grp(1, Ident), Ws, Lit("["), Ws,
      Grp(2, <<Rep({"]"}, TRUE, 1, FALSE)>>), Ws, Lit("]")>>

\* new\s+([A-Za-z_][A-Za-z0-9_]*)\b(?!\s*\[)
re_new_scalar ==
    <<Lit("new"), Ws1, Grp(1, Ident), WordB, NotAhead(<<Ws, Lit("[")>>)>>

\* delete\s*\[\s*\]\s*([A-Za-z_][A-Za-z0-9_]*)\s*;
re_delete_array ==
    <<Lit("delete"), Ws, Lit("["), Ws, Lit("]"), Ws, Grp(1, Ident), Ws, Lit(";")>>

\* delete\s+([A-Za-z_][A-Za-z0-9_]*)\s*;
re_delete_scalar == <<Lit("delete"), Ws1, Grp(1, Ident), Ws, Lit(";")>>

\* the template of the comment of line 212, (\1*)malloc(sizeof(\1) * \2)
NewArrayTextBare(T, n) == "(" \o T \o "*)malloc(sizeof(" \o T \o ") * " \o n \o ")"

\* the template (\1*)malloc(sizeof(\1) * (\2))
NewArrayText(T, n) == "(" \o T \o "*)malloc(sizeof(" \o T \o ") * (" \o n \o "))"

\* the template (\1*)malloc(sizeof(\1))
NewScalarText(T) == "(" \o T \o "*)malloc(sizeof(" \o T \o "))"

\* the template free(\1);
FreeText(name) == "free(" \o name \o ");"

\* line 213
SubNewArray(code) ==
    LET R(m) == NewArrayText(GroupText(code, m.g, 1), GroupText(code, m.g, 2))
    IN  ReSub(re_new_array, R, code)

\* line 216
SubNewScalar(code) ==
    LET R(m) == NewScalarText(GroupText(code, m.g, 1))
    IN  ReSub(re_new_scalar, R, code)

\* line 219
SubDeleteArray(code) ==
    LET R(m) == FreeText(GroupText(code, m.g, 1))
    IN  ReSub(re_delete_array, R, code)

\* line 221
SubDeleteScalar(code) ==
    LET R(m) == FreeText(GroupText(code, m.g, 1))
    IN  ReSub(re_delete_scalar, R, code)

_convert_new_delete_to_malloc_free(code) ==
    LET P3(c) == The({SubDeleteScalar(d) : d \in {SubDeleteArray(c)}})
        P2(c) == The({P3(d) : d \in {SubNewScalar(c)}})
    IN  The({P2(d) : d \in {SubNewArray(code)}})

(***************************************************************************)
(* _convert_malloc_free_to_new_delete (C -> C++).  The state threaded      *)
(* through each re.sub is the dictionary allocs.                           *)
(***************************************************************************)
\* realloc\s*\(\s*([A-Za-z_][A-Za-z0-9_]*)\s*,
re_realloc == <<Lit("realloc"), Ws, Lit("("), Ws, Grp(1, Ident), Ws, Lit(",")>>

\* set(re.findall(...)), line 231
ReallocNames(code) ==
    {GroupText(code, m.g, 1) : m \in Range(FindAll(re_realloc, code, 1))}

\* ([^\)]+)
NotParen1 == <<Rep({")"}, TRUE, 1, FALSE)>>

\* NAME\s*=\s*\(\s*(?:struct\s+)?(T)\s*\*\s*\)\s*  : the cast of lines 249, 255, 325
CastPrefix ==
    <<Grp(1, Ident), Ws, Lit("="), Ws, Lit("("), Ws, OptStruct, Grp(2, Ident), Ws,
      Lit("*"), Ws, Lit(")"), Ws>>

\* line 249
re_malloc_array ==
    CastPrefix \o
    <<Lit("malloc"), Ws, Lit("("), Ws, Lit("sizeof("), Ws, OptStruct, Ref(2), Ws,
      Lit(")"), Ws, Lit("*"), Ws, Grp(3, NotParen1), Lit(")"), Ws, Lit(";")>>

\* line 255
re_malloc_scalar ==
    CastPrefix \o
    <<Lit("malloc"), Ws, Lit("("), Ws, Lit("sizeof("), Ws, OptStruct, Ref(2), Ws,
      Lit(")"), Ws, Lit(")"), Ws, Lit(";")>>

\* line 281
re_malloc_sizeof_ptr ==
    <<Grp(1, Ident), Ws, Lit("="), Ws,
      Opt(<<Lit("("), Ws, OptStruct, Grp(2, Ident), Ws, Lit("*"), Ws, Lit(")"), Ws>>),
      Lit("malloc"), Ws, Lit("("), Ws, Lit("sizeof"), Ws, Lit("("), Ws, Lit("*"), Ws,
      Ref(1), Ws, Lit(")"), Ws, Opt(<<Lit("*"), Ws, Grp(3, NotParen1)>>), Lit(")"),
      Ws, Lit(";")>>

\* (?:^|;)\s*(?:struct\s+)?(T)\s*\*\s*(NAME)\s*=\s*malloc\s*\(\s*sizeof\(\s*(?:struct\s+)?\1\s*\)
\* without re.MULTILINE: the start of lines 302 and 307
LhsTypePrefix ==
    <<Alt(<<Bol(FALSE)>>, <<Lit(";")>>), Ws, OptStruct, Grp(1, Ident), Ws, Lit("*"),
      Ws, Grp(2, Ident), Ws, Lit("="), Ws, Lit("malloc"), Ws, Lit("("), Ws,
      Lit("sizeof("), Ws, OptStruct, Ref(1), Ws, Lit(")"), Ws>>

\* line 302
re_lhs_type_array ==
    LhsTypePrefix \o <<Lit("*"), Ws, Grp(3, NotParen1), Lit(")"), Ws, Lit(";")>>

\* line 307
re_lhs_type_scalar == LhsTypePrefix \o <<Lit(")"), Ws, Lit(";")>>

\* line 325
re_calloc_cast ==
    CastPrefix \o
    <<Lit("calloc"), Ws, Lit("("), Ws, Grp(3, <<Rep({","}, TRUE, 1, FALSE)>>), Ws,
      Lit(","), Ws, Lit("sizeof("), Ws, OptStruct, Ref(2), Ws, Lit(")"), Ws, Lit(")"),
      Ws, Lit(";")>>

\* line 344
re_calloc_sizeof_ptr ==
    <<Grp(1, Ident), Ws, Lit("="), Ws, Lit("calloc"), Ws, Lit("("), Ws,
      Grp(2, <<Rep({","}, TRUE, 1, FALSE)>>), Ws, Lit(","), Ws, Lit("sizeof("), Ws,
      Lit("*"), Ws, Ref(1), Ws, Lit(")"), Ws, Lit(")"), Ws, Lit(";")>>

\* free\s*\(\s*([A-Za-z_][A-Za-z0-9_]*)\s*\)\s*;
re_free == <<Lit("free"), Ws, Lit("("), Ws, Grp(1, Ident), Ws, Lit(")"), Ws, Lit(";")>>

Unchanged(code, m, allocs) == [text |-> SubSeq(code, m.b, m.e - 1), st |-> allocs]

repl_array(code, reallocs, m, allocs) ==
    LET name == GroupText(code, m.g, 1)
        T == GroupText(code, m.g, 2)
        n == GroupText(code, m.g, 3)
    IN  IF name \in reallocs THEN Unchanged(code, m, allocs)
        ELSE [text |-> name \o " = new " \o T \o "[" \o n \o "];",
              st |-> DictPut(allocs, name, "array")]

repl_scalar(code, reallocs, m, allocs) ==
    LET name == GroupText(code, m.g, 1)
        T == GroupText(code, m.g, 2)
    IN  IF name \in reallocs THEN Unchanged(code, m, allocs)
        ELSE [text |-> name \o " = new " \o T \o ";",
              st |-> DictPut(allocs, name, "scalar")]

\* lines 266-272: the element type of name = malloc(sizeof(*name) ...)
SizeofPtrType(types, name, castT) ==
    LET decl == DictGet(types, name)
        T1 == IF castT = "" /\ decl # ""
              THEN Replace(Replace(decl, "*", ""), " ", "")
              ELSE castT
    IN  IF T1 = "" THEN "int" ELSE T1

repl_sizeof_ptr(code, reallocs, types, m, allocs) ==
    LET name == GroupText(code, m.g, 1)
        T == SizeofPtrType(types, name, GroupText(code, m.g, 2))
        n == GroupText(code, m.g, 3)
    IN  IF name \in reallocs THEN Unchanged(code, m, allocs)
        ELSE IF n # ""
        THEN [text |-> name \o " = new " \o T \o "[" \o n \o "];",
              st |-> DictPut(allocs, name, "array")]
        ELSE [text |-> name \o " = new " \o T \o ";",
              st |-> DictPut(allocs, name, "scalar")]

repl_lhs_type_array(code, reallocs, m, allocs) ==
    LET T == GroupText(code, m.g, 1)
        name == GroupText(code, m.g, 2)
        n == GroupText(code, m.g, 3)
    IN  IF name \in reallocs THEN Unchanged(code, m, allocs)
        ELSE [text |-> T \o "* " \o name \o " = new " \o T \o "[" \o n \o "];",
              st |-> DictPut(allocs, name, "array")]

repl_lhs_type_scalar(code, reallocs, m, allocs) ==
    LET T == GroupText(code, m.g, 1)
        name == GroupText(code, m.g, 2)
    IN  IF name \in reallocs THEN Unchanged(code, m, allocs)
        ELSE [text |-> T \o "* " \o name \o " = new " \o T \o ";",
              st |-> DictPut(allocs, name, "scalar")]

\* lines 317-322 and 336-341
CallocText(name, T, n, allocs) ==
    IF Strip(n) = "1"
    THEN [text |-> name \o " = new " \o T \o ";", st |-> DictPut(allocs, name, "scalar")]
    ELSE [text |-> name \o " = new " \o T \o "[" \o n \o "];",
          st |-> DictPut(allocs, name, "array")]

repl_calloc_cast(code, reallocs, m, allocs) ==
    LET name == GroupText(code, m.g, 1)
    IN  IF name \in reallocs THEN Unchanged(code, m, allocs)
        ELSE CallocText(name, GroupText(code, m.g, 2), GroupText(code, m.g, 3), allocs)

repl_calloc_sizeof_ptr(code, reallocs, types, m, allocs) ==
    LET name == GroupText(code, m.g, 1)
        decl == IF name \in DOMAIN types THEN types[name] ELSE "int"
        T0 == Replace(Replace(decl, "*", ""), " ", "")
        T == IF T0 = "" THEN "int" ELSE T0
    IN  IF name \in reallocs THEN Unchanged(code, m, allocs)
        ELSE CallocText(name, T, GroupText(code, m.g, 2), allocs)

repl_free(code, m, allocs) ==
    LET name == GroupText(code, m.g, 1)
    IN  IF DictGet(allocs, name) = "array"
        THEN [text |-> "delete[] " \o name \o ";", st |-> allocs]
        ELSE [text |-> "delete " \o name \o ";", st |-> allocs]

\* The eight re.sub passes of _convert_malloc_free_to_new_delete, each from
\* [code, st] to [code, st] (st is allocs).
PassArray(c, reallocs) ==
    LET R(m, a) == repl_array(c.code, reallocs, m, a)
    IN  ReSubSt(re_malloc_array, R, c.code, c.st)

PassScalar(c, reallocs) ==
    LET R(m, a) == repl_scalar(c.code, reallocs, m, a)
    IN  ReSubSt(re_malloc_scalar, R, c.code, c.st)

PassSizeofPtr(c, reallocs, types) ==
    LET R(m, a) == repl_sizeof_ptr(c.code, reallocs, types, m, a)
    IN  ReSubSt(re_malloc_sizeof_ptr, R, c.code, c.st)

PassLhsArray(c, reallocs) ==
    LET R(m, a) == repl_lhs_type_array(c.code, reallocs, m, a)
    IN  ReSubSt(re_lhs_type_array, R, c.code, c.st)

PassLhsScalar(c, reallocs) ==
    LET R(m, a) == repl_lhs_type_scalar(c.code, reallocs, m, a)
    IN  ReSubSt(re_lhs_type_scalar, R, c.code, c.st)

PassCallocCast(c, reallocs) ==
    LET R(m, a) == repl_calloc_cast(c.code, reallocs, m, a)
    IN  ReSubSt(re_calloc_cast, R, c.code, c.st)

PassCallocSizeofPtr(c, reallocs, types) ==
    LET R(m, a) == repl_calloc_sizeof_ptr(c.code, reallocs, types, m, a)
    IN  ReSubSt(re_calloc_sizeof_ptr, R, c.code, c.st)

PassFree(c) ==
    LET R(m, a) == repl_free(c.code, m, a)
    IN  ReSubSt(re_free, R, c.code, c.st)

_convert_malloc_free_to_new_delete(code, types) ==
    LET P8(c) == PassFree(c).code
        P7(c, rn) == The({P8(d) : d \in {PassCallocSizeofPtr(c, rn, types)}})
        P6(c, rn) == The({P7(d, rn) : d \in {PassCallocCast(c, rn)}})
        P5(c, rn) == The({P6(d, rn) : d \in {PassLhsScalar(c, rn)}})
        P4(c, rn) == The({P5(d, rn) : d \in {PassLhsArray(c, rn)}})
        P3(c, rn) == The({P4(d, rn) : d \in {PassSizeofPtr(c, rn, types)}})
        P2(c, rn) == The({P3(d, rn) : d \in {PassScalar(c, rn)}})
        P1(rn) ==
            The({P2(d, rn) : d \in {PassArray([code |-> code, st |-> EmptyDict], rn)}})
    IN  The({P1(rn) : rn \in {ReallocNames(code)}})

(***************************************************************************)
(* The steps of convert_c_to_cpp (lines 361-387).                          *)
(***************************************************************************)
\* lines 363-364
CppIncludes(code) ==
    LET R(m) == "#include <iostream>"
    IN  IF Search(include_stdio, code) THEN ReSub(include_stdio, R, code) ELSE code

\* printf\s*\(.*?\)\s*;
re_printf_stmt ==
    <<Lit("printf"), Ws, Lit("("), Rep({NL}, TRUE, 0, TRUE), Lit(")"), Ws, Lit(";")>>

\* scanf\s*\(.*?\)\s*;
re_scanf_stmt ==
    <<Lit("scanf"), Ws, Lit("("), Rep({NL}, TRUE, 0, TRUE), Lit(")"), Ws, Lit(";")>>

\* lines 373-376 for one line ln: [code, st], st telling that a call raised
CppLine(ln, types) ==
    LET \* a replacement r = [exc, text] as a step of re.sub
        Sub(r, x) == [text |-> r.text, st |-> x \/ r.exc]
        RP(m, x) == Sub(_convert_printf_to_cout(SubSeq(ln, m.b, m.e - 1)), x)
        Scanfs(l1) ==
            LET RS(m, x) ==
                    Sub(_convert_scanf_to_cin(SubSeq(l1.code, m.b, m.e - 1), types), x)
            IN  ReSubSt(re_scanf_stmt, RS, l1.code, l1.st)
    IN  The({Scanfs(l1) : l1 \in {ReSubSt(re_printf_stmt, RP, ln, FALSE)}})

\* lines 370-377: [exc, text]
CppLines(code, types) ==
    LET Line(ln) == CppLine(ln, types)
        Code(l) == l.code
    IN  The({IF \E k \in 1..Len(ls) : ls[k].st THEN Raise
             ELSE Ret(Join(SeqMap(Code, ls), NL)) :
             ls \in {[k \in 1..Len(SplitLines(code)) |-> Line(SplitLines(code)[k])]}})

\* \bstruct\s+([A-Za-z_][A-Za-z0-9_]*)\s*\*
re_struct_ptr == <<WordB, Lit("struct"), Ws1, Grp(1, Ident), Ws, Lit("*")>>

\* line 383
CppStructPtr(code) ==
    LET R(m) == GroupText(code, m.g, 1) \o "*"
    IN  ReSub(re_struct_ptr, R, code)

\* \bW\b
WordRe(w) == <<WordB, Lit(w), WordB>>

\* re.sub(r"\bw\b", to, code)
SubWord(w, to, code) ==
    LET R(m) == to
    IN  ReSub(WordRe(w), R, code)

\* line 384
CppNull(code) == SubWord("NULL", "nullptr", code)

\* convert_c_to_cpp as a function: [exc, text]
convert_c_to_cpp(code0) ==
    LET Rest(c2, tmap) ==
            IF c2.exc THEN Raise
            ELSE The({The({Ret(CppNull(c4)) : c4 \in {CppStructPtr(c3)}}) :
                      c3 \in {_convert_malloc_free_to_new_delete(c2.text, tmap)}})
        Typed(c1, tmap) == The({Rest(c2, tmap) : c2 \in {CppLines(c1, tmap)}})
        Included(c1) == The({Typed(c1, tmap) : tmap \in {_infer_decl_types(c1)}})
    IN  The({Included(c1) : c1 \in {CppIncludes(code0)}})

(***************************************************************************)
(* The steps of convert_cpp_to_c (lines 390-446).                          *)
(***************************************************************************)
\* lines 392-393
CIncludes(code) ==
    LET R(m) == "#include <stdio.h>\n#include <stdlib.h>"
    IN  IF Search(include_iostream, code) THEN ReSub(include_iostream, R, code) ELSE code

\* std::cout\s*<<(.*?);
re_cout ==
    <<Lit("std::cout"), Ws, Lit("<<"), Grp(1, <<Rep({NL}, TRUE, 0, TRUE)>>), Lit(";")>>

\* std::cin\s*>>(.*?);
re_cin ==
    <<Lit("std::cin"), Ws, Lit(">>"), Grp(1, <<Rep({NL}, TRUE, 0, TRUE)>>), Lit(";")>>

\* the loop body of cout_repl (lines 403-415) for one part p; tmap is
\* _infer_decl_types(code) of the enclosing call's code
CoutPartStep(tmap, acc, p) ==
    IF p = "std::endl" THEN [acc EXCEPT !.fmt = @ \o "\\n"]
    ELSE IF StartsWith(p, DQ) THEN [acc EXCEPT !.fmt = @ \o StripSet(Strip(p), {DQ})]
    ELSE The({[acc EXCEPT !.vs = Append(@, p),
                          !.fmt = @ \o _fmt_for_type(IF ctp = "" THEN "int" ELSE ctp)] :
              ctp \in {_expr_ctype(p, tmap)}})

cout_repl(code, expr) ==
    LET parts == SeqMap(Strip, Split(expr, "<<"))
        Parts(tmap) ==
            LET Step(acc, p) == CoutPartStep(tmap, acc, p)
            IN  Fold(Step, [fmt |-> "", vs |-> <<>>], parts)
        Args(vs) == IF Len(vs) > 0 THEN ", " \o Join(vs, ", ") ELSE ""
    IN  The({"printf(\"" \o fin.fmt \o "\"" \o Args(fin.vs) \o ");" :
             fin \in {The({Parts(tmap) : tmap \in {_infer_decl_types(code)}})}})

\* line 421
CCout(code) ==
    LET R(m) == cout_repl(code, GroupText(code, m.g, 1))
    IN  ReSub(re_cout, R, code)

cin_repl(expr) ==
    LET vars == SeqMap(Strip, Split(expr, ">>"))
        Fmt(v) == "%d"
        Addr(v) == "&" \o v
    IN  "scanf(\"" \o Join(SeqMap(Fmt, vars), " ") \o "\", "
            \o Join(SeqMap(Addr, vars), ", ") \o ");"

\* line 434
CCin(code) ==
    LET R(m) == cin_repl(GroupText(code, m.g, 1))
    IN  ReSub(re_cin, R, code)

\* lines 437-441
CNullptr(code) == SubWord("nullptr", "NULL", code)

CBool(code) == SubWord("bool", "int", code)

CTrue(code) == SubWord("true", "1", code)

CFalse(code) == SubWord("false", "0", code)

\* convert_cpp_to_c as a function
convert_cpp_to_c(code0) ==
    LET P7(c) == The({_convert_new_delete_to_malloc_free(d) : d \in {CFalse(c)}})
        P6(c) == The({P7(d) : d \in {CTrue(c)}})
        P5(c) == The({P6(d) : d \in {CBool(c)}})
        P4(c) == The({P5(d) : d \in {CNullptr(c)}})
        P3(c) == The({P4(d) : d \in {CCin(c)}})
        P2(c) == The({P3(d) : d \in {CCout(c)}})
    IN  The({P2(d) : d \in {CIncludes(code0)}})

(***************************************************************************)
(* The state machine.  A run is one call of convert_c_to_cpp or of         *)
(* convert_cpp_to_c on the text src, or the first followed by the second   *)
(* on its result (todo holds the calls still to make).  pc is the place    *)
(* inside the running call; code, types, allocs and realloc_names are its  *)
(* local variables; ret collects what the calls returned.  A call that     *)
(* raises ends the run in pc = "raised".                                   *)
(*                                                                         *)
(* Several callers (the requests of webapp/app.py) may have a call in      *)
(* progress at once.  The variables above are the frame of the call that   *)
(* is taking steps; sched.calls lists the calls in progress (function and  *)
(* argument), sched.run is the one taking steps, and sched.parked keeps    *)
(* the frames of the others.                                               *)
(***************************************************************************)
VARIABLES src, todo, pc, code, types, allocs, realloc_names, ret, sched

vars == <<src, todo, pc, code, types, allocs, realloc_names, ret, sched>>

\* what sched.parked holds at the place of the call that is taking steps
NoFrame ==
    [src |-> "", todo |-> <<>>, pc |-> "running", code |-> "", types |-> EmptyDict,
     allocs |-> EmptyDict, realloc_names |-> {}, ret |-> <<>>]

\* where a call of function f starts
Entry(f) == IF f = "convert_c_to_cpp" THEN "cpp_includes" ELSE "c_includes"

\* the state in which the calls fs are about to be made on text
Begin(text, fs) ==
    /\ src = text
    /\ todo = Tail(fs)
    /\ pc = Entry(Head(fs))
    /\ code = text
    /\ types = EmptyDict
    /\ allocs = EmptyDict
    /\ realloc_names = {}
    /\ ret = <<>>
    /\ sched = [run |-> 1, calls |-> <<[fn |-> Head(fs), text |-> text]>>,
                parked |-> <<NoFrame>>]

Locals == <<types, allocs, realloc_names>>

\* a step of the running call that only rewrites code
Rewrite(from, to, new) ==
    /\ pc = from
    /\ code' = new
    /\ pc' = to
    /\ UNCHANGED <<src, todo, ret, Locals, sched>>

\* ---- convert_c_to_cpp ----
CppIncludesStep == Rewrite("cpp_includes", "cpp_types", CppIncludes(code))

CppTypesStep ==
    /\ pc = "cpp_types"
    /\ types' = _infer_decl_types(code)
    /\ pc' = "cpp_lines"
    /\ UNCHANGED <<src, todo, ret, code, allocs, realloc_names, sched>>

CppLinesStep ==
    /\ pc = "cpp_lines"
    /\ IF CppLines(code, types).exc
       THEN pc' = "raised" /\ code' = code
       ELSE pc' = "cpp_realloc" /\ code' = CppLines(code, types).text
    /\ UNCHANGED <<src, todo, ret, Locals, sched>>

\* lines 227-231
CppReallocStep ==
    /\ pc = "cpp_realloc"
    /\ allocs' = EmptyDict
    /\ realloc_names' = ReallocNames(code)
    /\ pc' = "cpp_malloc_array"
    /\ UNCHANGED <<src, todo, ret, code, types, sched>>

\* one re.sub of _convert_malloc_free_to_new_delete
AllocPass(from, to, new) ==
    /\ pc = from
    /\ code' = new.code
    /\ allocs' = new.st
    /\ pc' = to
    /\ UNCHANGED <<src, todo, ret, types, realloc_names, sched>>

Cur == [code |-> code, st |-> allocs]

CppMallocArrayStep ==
    AllocPass("cpp_malloc_array", "cpp_malloc_scalar", PassArray(Cur, realloc_names))

CppMallocScalarStep ==
    AllocPass("cpp_malloc_scalar", "cpp_sizeof_ptr", PassScalar(Cur, realloc_names))

CppSizeofPtrStep ==
    AllocPass("cpp_sizeof_ptr", "cpp_lhs_array", PassSizeofPtr(Cur, realloc_names, types))

CppLhsArrayStep ==
    AllocPass("cpp_lhs_array", "cpp_lhs_scalar", PassLhsArray(Cur, realloc_names))

CppLhsScalarStep ==
    AllocPass("cpp_lhs_scalar", "cpp_calloc_cast", PassLhsScalar(Cur, realloc_names))

CppCallocCastStep ==
    AllocPass("cpp_calloc_cast", "cpp_calloc_ptr", PassCallocCast(Cur, realloc_names))

CppCallocPtrStep ==
    AllocPass("cpp_calloc_ptr", "cpp_free",
              PassCallocSizeofPtr(Cur, realloc_names, types))

CppFreeStep == AllocPass("cpp_free", "cpp_struct", PassFree(Cur))

CppStructStep == Rewrite("cpp_struct", "cpp_null", CppStructPtr(code))

CppNullStep == Rewrite("cpp_null", "cpp_return", CppNull(code))

\* ---- convert_cpp_to_c ----
CIncludesStep == Rewrite("c_includes", "c_cout", CIncludes(code))

CCoutStep == Rewrite("c_cout", "c_cin", CCout(code))

CCinStep == Rewrite("c_cin", "c_nullptr", CCin(code))

CNullptrStep == Rewrite("c_nullptr", "c_bool", CNullptr(code))

CBoolStep == Rewrite("c_bool", "c_true", CBool(code))

CTrueStep == Rewrite("c_true", "c_false", CTrue(code))

CFalseStep == Rewrite("c_false", "c_new_array", CFalse(code))

CNewArrayStep == Rewrite("c_new_array", "c_new_scalar", SubNewArray(code))

CNewScalarStep == Rewrite("c_new_scalar", "c_delete_array", SubNewScalar(code))

CDeleteArrayStep == Rewrite("c_delete_array", "c_delete_scalar", SubDeleteArray(code))

CDeleteScalarStep == Rewrite("c_delete_scalar", "c_return", SubDeleteScalar(code))

\* `return code`; the caller then makes its next call, if any, on the result
Return(at) ==
    /\ pc = at
    /\ ret' = Append(ret, code)
    /\ IF Len(todo) = 0
       THEN pc' = "done" /\ todo' = todo
       ELSE pc' = Entry(Head(todo)) /\ todo' = Tail(todo)
    /\ types' = EmptyDict
    /\ allocs' = EmptyDict
    /\ realloc_names' = {}
    /\ UNCHANGED <<src, code, sched>>

CppReturn == Return("cpp_return")

CReturn == Return("c_return")

NextCpp ==
    \/ CppIncludesStep
    \/ CppTypesStep
    \/ CppLinesStep
    \/ CppReallocStep
    \/ CppMallocArrayStep
    \/ CppMallocScalarStep
    \/ CppSizeofPtrStep
    \/ CppLhsArrayStep
    \/ CppLhsScalarStep
    \/ CppCallocCastStep
    \/ CppCallocPtrStep
    \/ CppFreeStep
    \/ CppStructStep
    \/ CppNullStep
    \/ CppReturn

NextC ==
    \/ CIncludesStep
    \/ CCoutStep
    \/ CCinStep
    \/ CNullptrStep
    \/ CBoolStep
    \/ CTrueStep
    \/ CFalseStep
    \/ CNewArrayStep
    \/ CNewScalarStep
    \/ CDeleteArrayStep
    \/ CDeleteScalarStep
    \/ CReturn

Next == NextCpp \/ NextC

(***************************************************************************)
(* Helpers of the properties.                                              *)
(***************************************************************************)
\* the number of places of s at which w stands
Count(s, w) == Cardinality({j \in 1..Len(s) : HasAt(s, j, w)})

Contains(s, w) == \E j \in 1..Len(s) : HasAt(s, j, w)

\* the non-empty sequences over S of length at most n
SeqsUpTo(S, n) == UNION {[1..k -> S] : k \in 1..n}

(***************************************************************************)
(* C source texts with allocation statements on the pointer p.             *)
(***************************************************************************)
MaxReallocs == 1


MallocCastArray == "p = (int*)malloc(sizeof(int) * n);"

MallocCastScalar == "p = (int*)malloc(sizeof(int));"

MallocSizeofPtr == "p = malloc(sizeof(*p) * n);"

DeclMallocArray == "int* p = malloc(sizeof(int) * n);"

DeclMallocScalar == "int* p = malloc(sizeof(int));"

CallocCast == "p = (int*)calloc(n, sizeof(int));"

CallocSizeofPtr == "p = calloc(1, sizeof(*p));"

FreeP == "free(p);"

ReallocP == "p = realloc(p, n);"

\* the malloc and calloc statements on p
AllocStmts ==
    {MallocCastArray, MallocCastScalar, MallocSizeofPtr, DeclMallocArray,
     DeclMallocScalar, CallocCast, CallocSizeofPtr}

\* the malloc, calloc and free statements on p
AllocFreeStmts == AllocStmts \cup {FreeP}

\* what stands before the first statement: nothing, an opening brace, or
\* another statement
AllocLeads == {"", "{\n", "int n;\n"}

\* k lines, each holding w
Lines(w, k) == Join([j \in 1..k |-> NL \o w], "")

\* an allocation of p, then some reallocs of p, then its free
AllocInputs ==
    {lead \o st \o Lines(ReallocP, r) \o NL \o FreeP :
        lead \in AllocLeads, st \in AllocStmts, r \in 0..MaxReallocs}

InitAlloc == \E text \in AllocInputs : Begin(text, <<"convert_c_to_cpp">>)

SpecAlloc == InitAlloc /\ [][NextCpp]_vars

\* C1: in convert_c_to_cpp, when p is the first argument of a realloc call
\* somewhere in the source, every malloc, calloc and free statement on p
\* stands in the output as often as in the source (none is rewritten; in
\* particular free(p); does not become delete p; or delete[] p;).
C1_ReallocStatementsKept ==
    (pc = "done" /\ "p" \in ReallocNames(src))
        => \A st \in AllocFreeStmts : Count(ret[1], st) = Count(src, st)

\* C3: a declaration with allocation `int* p = malloc(sizeof(int) * n);`
\* standing first in the text, first after an opening brace or after
\* another statement, and followed by free(p);, comes out as
\* `int* p = new int[n];` and `delete[] p;`; the scalar form comes out as
\* `int* p = new int;` and `delete p;`.
C3_DeclAllocRewritten ==
    pc = "done" =>
        \A lead \in AllocLeads :
            /\ src = lead \o DeclMallocArray \o NL \o FreeP
                 => /\ Contains(ret[1], "int* p = new int[n];")
                    /\ Contains(ret[1], "delete[] p;")
            /\ src = lead \o DeclMallocScalar \o NL \o FreeP
                 => /\ Contains(ret[1], "int* p = new int;")
                    /\ Contains(ret[1], "delete p;")

(***************************************************************************)
(* Partial and malformed texts: a call name followed by brackets, quotes   *)
(* and commas in any order, and a semicolon.  Both functions are called    *)
(* on each.                                                                *)
(***************************************************************************)
MaxPieces == 3

CallHeads == {"printf", "scanf", "std::cout <<", "std::cin >>"}

Pieces == {"(", ")", "\"", ",", "%d"}

PartialInputs ==
    {""} \cup
    {h \o Join(ps, "") \o ";" :
        h \in CallHeads, ps \in {<<>>} \cup SeqsUpTo(Pieces, MaxPieces)}

Functions == {"convert_c_to_cpp", "convert_cpp_to_c"}

\* the places of a call from which a step goes on (each step asks for its
\* place and for nothing else)
StepLabels ==
    {"cpp_includes", "cpp_types", "cpp_lines", "cpp_realloc", "cpp_malloc_array",
     "cpp_malloc_scalar", "cpp_sizeof_ptr", "cpp_lhs_array", "cpp_lhs_scalar",
     "cpp_calloc_cast", "cpp_calloc_ptr", "cpp_free", "cpp_struct", "cpp_null",
     "cpp_return", "c_includes", "c_cout", "c_cin", "c_nullptr", "c_bool", "c_true",
     "c_false", "c_new_array", "c_new_scalar", "c_delete_array", "c_delete_scalar",
     "c_return"}

Init == \E text \in PartialInputs, f \in Functions : Begin(text, <<f>>)

Spec == Init /\ [][Next]_vars

\* C2: on every input text, empty, malformed or partial, each call of
\* convert_c_to_cpp and of convert_cpp_to_c is at a place from which it goes
\* on, or has returned, and what it returns is one string; no step raises.
\* (Every step moves pc forward along the fixed order of the passes, so a
\* call that never raises returns.)
C2_ReturnsString ==
    /\ pc # "raised"
    /\ pc \in StepLabels \cup {"done"}
    /\ pc = "done" => Len(ret) = 1 /\ ret[1] \in STRING

\* a printf call and a scanf call with no argument have been converted, and
\* so has a call with an unbalanced quote
C2_Witness ==
    /\ pc = "done"
    /\ \/ src = "printf();" /\ ret = <<"printf();">>
       \/ src = "scanf();" /\ ret = <<"scanf();">>
       \/ src = "printf(\");" /\ ret = <<"std::cout;">>

(***************************************************************************)
(* printf statements.  The format is a sequence of parts, each a literal   *)
(* fragment or a specifier; the k-th specifier has the argument PrintfArgs *)
(* [k].                                                                    *)
(***************************************************************************)
MaxFmtParts == 3

\* backslash-n and backslash-t as they stand in a C string literal
EscN == "\\n"

EscT == "\\t"

LiteralParts == {"v=", EscT, EscN}

SpecParts == {"%d", "%ld", "%lf", "%5.2f"}

Formats == SeqsUpTo(LiteralParts \cup SpecParts, MaxFmtParts)

PrintfArgs == <<"a", "b", "c", "d">>

\* the specifiers among the parts ps, in order
SpecsOf(ps) == SelectSeq(ps, LAMBDA q : q \in SpecParts)

\* the printf statement with the format ps
PrintfStmt(ps) ==
    "printf(\"" \o Join(ps, "") \o "\""
        \o Join([k \in 1..Len(SpecsOf(ps)) |-> ", " \o PrintfArgs[k]], "") \o ");"

InitPrintf == \E ps \in Formats : Begin(PrintfStmt(ps), <<"convert_c_to_cpp">>)

SpecPrintf == InitPrintf /\ [][NextCpp]_vars

\* the insertions << (a) << (b) ... of the first n arguments
Insertions(n) == Join([k \in 1..n |-> " << (" \o PrintfArgs[k] \o ")"], "")

\* C4: a format made of specifiers only (%d, %ld, %lf, %5.2f) comes out as
\* std::cout with one insertion << (arg_k) per specifier, in order, and
\* nothing else: no character of a specifier is emitted as literal text.
C4_SpecifiersWhole ==
    pc = "done" =>
        \A ps \in SeqsUpTo(SpecParts, MaxFmtParts) :
            src = PrintfStmt(ps) => ret[1] = "std::cout" \o Insertions(Len(ps)) \o ";"

\* C5: << std::endl is in the output, once and last, exactly when the
\* format ends with backslash-n; a backslash-n in front of a specifier
\* stays in the output.
C5_EndlIffTrailingNewline ==
    pc = "done" =>
        \A ps \in Formats :
            src = PrintfStmt(ps) =>
                /\ Count(ret[1], " << std::endl") = (IF ps[Len(ps)] = EscN THEN 1 ELSE 0)
                /\ ps[Len(ps)] = EscN => EndsWith(ret[1], " << std::endl;")
                /\ (\E k \in 1..(Len(ps) - 1) : ps[k] = EscN /\ ps[k + 1] \in SpecParts)
                       => Contains(ret[1], EscN)

\* the parts ps as insertions: adjacent literal fragments are one quoted
\* string with the characters of the source, the k-th specifier is << (arg_k)
RECURSIVE Chain(_, _, _)
Chain(ps, lit, k) ==
    LET Quoted == IF lit = "" THEN "" ELSE " << \"" \o lit \o "\""
    IN  IF ps = <<>> THEN Quoted
        ELSE IF Head(ps) \in SpecParts
        THEN Quoted \o " << (" \o PrintfArgs[k] \o ")" \o Chain(Tail(ps), "", k + 1)
        ELSE Chain(Tail(ps), lit \o Head(ps), k)

\* C6: for a format of literal fragments and %d, with backslash-n at most
\* at its end, the output is std::cout, the fragments as quoted strings
\* with the characters of the source and the arguments in order, then
\* << std::endl when the format ends with backslash-n.
C6_LiteralsVerbatim ==
    pc = "done" =>
        \A ps \in SeqsUpTo({"v=", EscT, "%d"}, MaxFmtParts - 1), nl \in BOOLEAN :
            src = PrintfStmt(IF nl THEN Append(ps, EscN) ELSE ps) =>
                ret[1] = "std::cout" \o Chain(ps, "", 1)
                             \o (IF nl THEN " << std::endl" ELSE "") \o ";"

(***************************************************************************)
(* scanf statements: a quoted format and some arguments after it.          *)
(***************************************************************************)
MaxScanfArgs == 2

\* formats with no, one, two and three specifiers, of several kinds
ScanfFormats == {"", "%d", "%d %f", "%s%d%lf", "%d,%d"}

\* the arguments, each with the target it names
ScanfArgs == {<<"&a", "a">>, <<"&b", "b">>, <<"&v[1]", "v[1]">>, <<"name", "name">>}

ScanfArgSeqs == {<<>>} \cup SeqsUpTo(ScanfArgs, MaxScanfArgs)

\* what stands before the call on its line
ScanfLeads == {"", "  ", "int a; "}

ScanfStmt(lead, fmt, as) ==
    lead \o "scanf(\"" \o fmt \o "\""
        \o Join([k \in 1..Len(as) |-> ", " \o as[k][1]], "") \o ");"

InitScanf ==
    \E lead \in ScanfLeads, fmt \in ScanfFormats, as \in ScanfArgSeqs :
        Begin(ScanfStmt(lead, fmt, as), <<"convert_c_to_cpp">>)

SpecScanf == InitScanf /\ [][NextCpp]_vars

MaxNewStmts == 2

\* new T[N]: what stands before it, T, the blanks before the bracket and N
\* as written between the brackets
ArrayNews ==
    {[k |-> "array", lhs |-> "int* p = ", T |-> "int", sp |-> "", N |-> "10"],
     [k |-> "array", lhs |-> "Widget* w = ", T |-> "Widget", sp |-> "", N |-> "n + 1"],
     [k |-> "array", lhs |-> "p = ", T |-> "int", sp |-> " ", N |-> " n"],
     [k |-> "array", lhs |-> "b = ", T |-> "bool", sp |-> "", N |-> "2"]}

\* new T, not followed by a bracket
ScalarNews ==
    {[k |-> "scalar", lhs |-> "int* q = ", T |-> "int"],
     [k |-> "scalar", lhs |-> "w = ", T |-> "Widget"],
     [k |-> "scalar", lhs |-> "b = ", T |-> "bool"]}

\* delete[] name; and delete name; as written, with the name
Deletes ==
    {[k |-> "delete", text |-> "delete[] p;", name |-> "p"],
     [k |-> "delete", text |-> "delete [] w ;", name |-> "w"],
     [k |-> "delete", text |-> "delete q;", name |-> "q"]}

NewStmts == ArrayNews \cup ScalarNews \cup Deletes

\* the statement as C++ text
NewStmtText(d) ==
    CASE d.k = "array" -> d.lhs \o "new " \o d.T \o d.sp \o "[" \o d.N \o "];"
      [] d.k = "scalar" -> d.lhs \o "new " \o d.T \o ";"
      [] d.k = "delete" -> d.text

NewProgram(ds) == Join([j \in 1..Len(ds) |-> NewStmtText(ds[j])], NL)

InitNew ==
    \E ds \in SeqsUpTo(NewStmts, MaxNewStmts) :
        Begin(NewProgram(ds), <<"convert_cpp_to_c">>)

SpecNew == InitNew /\ [][NextC]_vars

\* T as the token pass of lines 439-441 leaves it
CType(T) == IF T = "bool" THEN "int" ELSE T

\* the statement d in C, the cast and malloc being joined by gap
MallocStmt(d, gap) ==
    CASE d.k = "array" ->
             d.lhs \o "(" \o CType(d.T) \o "*)" \o gap \o "malloc(sizeof(" \o CType(d.T)
                 \o ") * (" \o LStripSet(d.N, Space) \o "));"
      [] d.k = "scalar" ->
             d.lhs \o "(" \o CType(d.T) \o "*)" \o gap \o "malloc(sizeof(" \o CType(d.T)
                 \o "));"
      [] d.k = "delete" -> "free(" \o d.name \o ");"

MallocProgram(ds, gap) == Join([j \in 1..Len(ds) |-> MallocStmt(ds[j], gap)], NL)

RoundTypes == {"int", "double"}

RoundSizes == {"5", "n"}

CoutTypes == {"int", "long", "float", "double", "char"}

ArrayText(T, N) == T \o "* p = new " \o T \o "[" \o N \o "];\ndelete[] p;"

ScalarText(T) == T \o "* p = new " \o T \o ";\ndelete p;"

\* a declared variable x inserted after a literal and before std::endl, or
\* alone
CoutText(ty, framed) ==
    ty \o " x;\nstd::cout << "
        \o (IF framed THEN "\"v=\" << x << std::endl;" ELSE "x;")

RoundInputs ==
    {ArrayText(T, N) : T \in RoundTypes, N \in RoundSizes}
        \cup {ScalarText(T) : T \in RoundTypes}
        \cup {CoutText(ty, framed) : ty \in CoutTypes, framed \in BOOLEAN}

InitRound ==
    \E text \in RoundInputs : Begin(text, <<"convert_cpp_to_c", "convert_c_to_cpp">>)

SpecRound == InitRound /\ [][Next]_vars

\* C9: after convert_cpp_to_c and then convert_c_to_cpp, the text of an
\* array allocation has new T[ and delete[] p; again, the text of a scalar
\* allocation has new T; and delete p; again, and the text of a cout chain
\* has the chain with the same literal and the same value in the same
\* order and no other literal (the value with or without brackets).
C9_RoundTrip ==
    (pc = "done" /\ Len(ret) = 2) =>
        /\ \A T \in RoundTypes, N \in RoundSizes :
               src = ArrayText(T, N) =>
                   /\ Contains(ret[2], "new " \o T \o "[")
                   /\ Contains(ret[2], "delete[] p;")
        /\ \A T \in RoundTypes :
               src = ScalarText(T) =>
                   /\ Contains(ret[2], "new " \o T \o ";")
                   /\ Contains(ret[2], "delete p;")
        /\ \A ty \in CoutTypes :
               /\ src = CoutText(ty, TRUE) =>
                      \/ Contains(ret[2], "std::cout << \"v=\" << (x) << std::endl;")
                      \/ Contains(ret[2], "std::cout << \"v=\" << x << std::endl;")
               /\ src = CoutText(ty, FALSE) =>
                      \/ Contains(ret[2], "std::cout << (x);")
                      \/ Contains(ret[2], "std::cout << x;")

(***************************************************************************)
(* Texts with one include line, between some lines and some other lines.   *)
(***************************************************************************)
\* what stands before the include line: nothing, a line, a blank line
LinesBefore == {"", "int a;\n", "\n", "int a;\n\n"}

\* what stands after it: nothing, the end of the line, a line, a blank
\* line and a line, an indented line
LinesAfter == {"", "\n", "\nint x;", "\n\nint x;", "\n  int x;"}

IncludeLines == {"#include <stdio.h>", "#include <iostream>"}

InitInclude ==
    \E b \in LinesBefore, inc \in IncludeLines, a \in LinesAfter, f \in Functions :
        Begin(b \o inc \o a, <<f>>)

SpecInclude == InitInclude /\ [][Next]_vars

\* C10: the include step of convert_c_to_cpp puts #include <iostream> in
\* the place of the line #include <stdio.h>, the include step of
\* convert_cpp_to_c puts the two lines #include <stdio.h> and #include
\* <stdlib.h> in the place of the line #include <iostream>, and what stands
\* before and after the line, blank lines and indentation included, is as
\* it was.
C10_IncludeFrame ==
    \A b \in LinesBefore, a \in LinesAfter :
        /\ (pc = "cpp_types" /\ src = b \o "#include <stdio.h>" \o a)
               => code = b \o "#include <iostream>" \o a
        /\ (pc = "c_cout" /\ src = b \o "#include <iostream>" \o a)
               => code = b \o "#include <stdio.h>\n#include <stdlib.h>" \o a


(***************************************************************************)
(* Texts in which no rewrite pattern of either direction finds anything:   *)
(* plain statements, blank lines, LF and CRLF line terminators, with and   *)
(* without a terminator after the last line.                               *)
(***************************************************************************)
MaxPlainLines == 2

PlainLines == {"int x;", "", "  x = x + 1;"}

PlainEnds == {"\n", "\r\n"}

PlainInputs ==
    {Join(ls, e) \o t :
        ls \in SeqsUpTo(PlainLines, MaxPlainLines), e \in PlainEnds, t \in {"", "\n", "\r\n"}}

InitPlain == \E text \in PlainInputs, f \in Functions : Begin(text, <<f>>)

SpecPlain == InitPlain /\ [][Next]_vars

\* C11: a text without any construct that a rewrite pattern of the chosen
\* direction recognises is returned as it was given, character for
\* character, line terminators and a trailing newline included.
C11_PlainTextUnchanged == pc = "done" => ret[1] = src

(***************************************************************************)
(* Calls in progress at the same time.  code, types (line 369), allocs     *)
(* (line 227) and realloc_names (line 231) are local variables of a call:  *)
(* each call has its own, and they are put aside with the call when        *)
(* another call takes its steps.  The patterns of lines 8-10 are the only  *)
(* module-level objects, and no call writes them.                          *)
(***************************************************************************)
MaxCalls == 2

\* the frame of the call that is taking steps
Frame ==
    [src |-> src, todo |-> todo, pc |-> pc, code |-> code, types |-> types,
     allocs |-> allocs, realloc_names |-> realloc_names, ret |-> ret]

\* the frame of a call of f on text that has taken no step yet
NewFrame(text, f) ==
    [src |-> text, todo |-> <<>>, pc |-> Entry(f), code |-> text, types |-> EmptyDict,
     allocs |-> EmptyDict, realloc_names |-> {}, ret |-> <<>>]

\* the variables hold the frame fr
AtFrame(fr) ==
    /\ src = fr.src
    /\ todo = fr.todo
    /\ pc = fr.pc
    /\ code = fr.code
    /\ types = fr.types
    /\ allocs = fr.allocs
    /\ realloc_names = fr.realloc_names
    /\ ret = fr.ret

\* a resumption under which allocs and realloc_names are one record and one
\* set for all calls
ResumeSharedRecord(fr) ==
    /\ src' = fr.src
    /\ todo' = fr.todo
    /\ pc' = fr.pc
    /\ code' = fr.code
    /\ types' = fr.types
    /\ ret' = fr.ret
    /\ UNCHANGED <<allocs, realloc_names>>

\* the call with frame fr goes on: it finds its own local variables
Resume(fr) ==
    /\ src' = fr.src
    /\ todo' = fr.todo
    /\ pc' = fr.pc
    /\ code' = fr.code
    /\ types' = fr.types
    /\ allocs' = fr.allocs
    /\ realloc_names' = fr.realloc_names
    /\ ret' = fr.ret

\* another call in progress takes the next steps
Switch ==
    \E i \in 1..Len(sched.calls) :
        /\ i # sched.run
        /\ Resume(sched.parked[i])
        /\ sched' = [sched EXCEPT !.run = i,
                                  !.parked = [@ EXCEPT ![sched.run] = Frame,
                                                       ![i] = NoFrame]]

ConcCalls ==
    {[fn |-> "convert_c_to_cpp", text |-> MallocCastArray \o NL \o FreeP],
     [fn |-> "convert_c_to_cpp", text |-> ReallocP \o NL \o FreeP],
     [fn |-> "convert_cpp_to_c", text |-> "std::cout << x;"]}

InitConc ==
    \E cs \in [1..MaxCalls -> ConcCalls] :
        /\ AtFrame(NewFrame(cs[1].text, cs[1].fn))
        /\ sched = [run |-> 1, calls |-> cs,
                    parked |-> [i \in 1..MaxCalls |->
                                   IF i = 1 THEN NoFrame
                                   ELSE NewFrame(cs[i].text, cs[i].fn)]]

NextConc == Next \/ Switch

SpecConc == InitConc /\ [][NextConc]_vars

\* the frame of call i
FrameOf(i) == IF i = sched.run THEN Frame ELSE sched.parked[i]

\* what the call c returns when no other call is in progress
Alone(c) ==
    IF c.fn = "convert_c_to_cpp" THEN convert_c_to_cpp(c.text)
    ELSE Ret(convert_cpp_to_c(c.text))

\* C12: calls share no state that one of them writes: however the steps of
\* the calls in progress are interleaved, each call returns what it returns
\* when it runs alone on the same text, and the allocation record and the
\* realloc set of the call taking steps are the ones that call built.
C12_CallsIndependent ==
    \A i \in 1..Len(sched.calls) :
        /\ FrameOf(i).pc # "raised"
        /\ FrameOf(i).pc = "done" =>
               /\ ~Alone(sched.calls[i]).exc
               /\ FrameOf(i).ret = <<Alone(sched.calls[i]).text>>

\* a call put aside before its free pass with its allocation record filled,
\* while another call that began later has reached its own free pass with
\* another record
C12_Witness ==
    \E i \in 1..Len(sched.calls) :
        /\ i # sched.run
        /\ sched.parked[i].pc = "cpp_free"
        /\ sched.parked[i].allocs # EmptyDict
        /\ pc = "cpp_free"
        /\ allocs # sched.parked[i].allocs

(***************************************************************************)
(* C source texts with several allocation statements of p, in the array    *)
(* and the scalar form and matched by different patterns, then free(p);.   *)
(***************************************************************************)
MaxAllocStmts == 2

MallocSizeofPtrScalar == "p = malloc(sizeof(*p));"

\* allocation statements of p that a pattern rewrites to `p = new int[n];`
ArrayAllocs == {MallocCastArray, MallocSizeofPtr, CallocCast}

\* allocation statements of p that a pattern rewrites to `p = new int;`
ScalarAllocs == {MallocCastScalar, MallocSizeofPtrScalar, CallocSizeofPtr}

KindInputs ==
    {FreeP} \cup
    {Join(sts, NL) \o NL \o FreeP :
        sts \in SeqsUpTo(ArrayAllocs \cup ScalarAllocs, MaxAllocStmts)}

InitKinds == \E text \in KindInputs : Begin(text, <<"convert_c_to_cpp">>)

SpecKinds == InitKinds /\ [][NextCpp]_vars

\* C13: in one call of convert_c_to_cpp, free(p); becomes delete[] p; when
\* an allocation statement of p was rewritten to the array form
\* `p = new int[n];` in that call, and delete p; otherwise, whatever the
\* number and the order of the array and scalar allocations of p and
\* whichever patterns rewrote them.
C13_DeleteFollowsArrayRewrite ==
    pc = "done" =>
        IF Contains(ret[1], "p = new int[n];")
        THEN Contains(ret[1], "delete[] p;") /\ ~Contains(ret[1], "delete p;")
        ELSE Contains(ret[1], "delete p;") /\ ~Contains(ret[1], "delete[] p;")

(***************************************************************************)
(* C source texts with an allocation of p whose size is the sizeof of the  *)
(* dereferenced p, alone or times n, after a declaration of p with one or  *)
(* more pointer levels, or after none, with and without a cast.            *)
(***************************************************************************)
MaxStars == 2

PtrBases == {"int", "long", "struct Node"}

PtrCasts == {"", "long", "char"}

PtrSizes == {"", "n"}

\* the declaration of p as a pointer of k levels to base; none for k = 0
PtrDecl(base, k) == IF k = 0 THEN "" ELSE base \o " " \o Stars(k) \o "p;\n"

PtrStmt(cast, n) ==
    "p = " \o (IF cast = "" THEN "" ELSE "(" \o cast \o "*)")
           \o "malloc(sizeof(*p)" \o (IF n = "" THEN "" ELSE " * " \o n) \o ");"

InitPtr ==
    \E base \in PtrBases, k \in 0..MaxStars, cast \in PtrCasts, n \in PtrSizes :
        Begin(PtrDecl(base, k) \o PtrStmt(cast, n), <<"convert_c_to_cpp">>)

SpecPtr == InitPtr /\ [][NextCpp]_vars

\* the allocation in the form `p = new T;` or `p = new T[n];`
NewStmt(T, n) == "p = new " \o T \o (IF n = "" THEN "" ELSE "[" \o n \o "]") \o ";"

\* C14: for an allocation of p by malloc whose size is the sizeof of the
\* dereferenced p, alone or times n, the type written after new is the
\* cast type when there is a cast; without a cast it is the declared type
\* of p with exactly one pointer level taken off (int** gives int*, struct
\* Node* gives struct Node); and it is int when p has no declaration.
C14_ElementTypeOfSizeofPtr ==
    \A base \in PtrBases, k \in 0..MaxStars, cast \in PtrCasts, n \in PtrSizes :
        (pc = "done" /\ src = PtrDecl(base, k) \o PtrStmt(cast, n))
            => ret[1] = CppStructPtr(PtrDecl(base, k))
                          \o NewStmt(IF cast # "" THEN cast
                                     ELSE IF k = 0 THEN "int"
                                     ELSE base \o Stars(k - 1), n)

(***************************************************************************)
(* C source texts with an assignment of p by calloc: with a cast and the   *)
(* sizeof of a type, without a cast and the sizeof of a type, and with the *)
(* sizeof of the dereferenced p; then some reallocs of p and its free.     *)
(***************************************************************************)
CallocCounts == {"1", "n", "2"}

CallocForms == {"cast", "plain", "deref"}

CallocStmt(form, cnt) ==
    "p = " \o (IF form = "cast" THEN "(int*)" ELSE "")
           \o "calloc(" \o cnt \o ", sizeof("
           \o (IF form = "deref" THEN "*p" ELSE "int") \o "));"

CallocInput(form, cnt, r) == CallocStmt(form, cnt) \o Lines(ReallocP, r) \o NL \o FreeP

InitCalloc ==
    \E form \in CallocForms, cnt \in CallocCounts, r \in 0..MaxReallocs :
        Begin(CallocInput(form, cnt, r), <<"convert_c_to_cpp">>)

SpecCalloc == InitCalloc /\ [][NextCpp]_vars

\* C15: an assignment of p by calloc with the sizeof of a type, with or
\* without a cast, or with the sizeof of the dereferenced p, is rewritten
\* when p is not the first argument of a realloc: to `p = new int;` with
\* the scalar kind recorded (free(p); becomes delete p;) when the count is
\* the literal 1, and to `p = new int[N];` with the array kind recorded
\* (free(p); becomes delete[] p;) for every other count N.
C15_CallocRewritten ==
    \A form \in CallocForms, cnt \in CallocCounts :
        (pc = "done" /\ src = CallocInput(form, cnt, 0))
            => ret[1] = IF cnt = "1" THEN "p = new int;\ndelete p;"
                        ELSE "p = new int[" \o cnt \o "];\ndelete[] p;"

(***************************************************************************)
(* C++ source texts with a cout chain of value tokens over q (q itself,    *)
(* q dereferenced, q indexed), after a declaration of q with zero or more  *)
(* pointer levels, or after none.                                          *)
(***************************************************************************)
MaxCoutValues == 2

ValueBases == {"int", "long", "float", "double", "char"}

ValueForms == {"q", "*q", "q[0]"}

\* the declared type of q: none, or base with k pointer levels
ValueDecls == {[base |-> "", k |-> 0]} \cup [base : ValueBases, k : 0..MaxStars]

ValueDeclText(d) == IF d.base = "" THEN "" ELSE d.base \o " " \o Stars(d.k) \o "q;\n"

ValueChains == SeqsUpTo(ValueForms, MaxCoutValues)

ValueInput(d, ch) == ValueDeclText(d) \o "std::cout << " \o Join(ch, " << ") \o ";"

InitValue ==
    \E d \in ValueDecls, ch \in ValueChains : Begin(ValueInput(d, ch), <<"convert_cpp_to_c">>)

SpecValue == InitValue /\ [][NextC]_vars

\* the type of the token tok when q is declared by d; "" when unresolved
ValueType(d, tok) ==
    IF d.base = "" THEN ""
    ELSE IF tok = "q" THEN d.base \o Stars(d.k)
    ELSE IF d.k > 0 THEN d.base \o Stars(d.k - 1)
    ELSE ""

\* the specifier that the table of the specification gives for a type
SpecifierOf(ty) ==
    CASE ty = "int" -> "%d"
      [] ty = "long" -> "%ld"
      [] ty = "float" -> "%f"
      [] ty = "double" -> "%lf"
      [] ty = "char" -> "%c"
      [] ty = "char*" -> "%s"
      [] OTHER -> "%d"

\* C16: each value token of a cout chain (q, q dereferenced, q indexed)
\* gives, in chain order, one specifier and one argument of the printf
\* call; the specifier is %d for int, %ld for long, %f for float, %lf for
\* double, %c for char and %s for char*, the dereferenced and the indexed
\* q having the pointee type of q, and %d for every other type and for an
\* unresolved one.
C16_SpecifierPerValue ==
    \A d \in ValueDecls, ch \in ValueChains :
        (pc = "done" /\ src = ValueInput(d, ch))
            => ret[1] = ValueDeclText(d) \o "printf(\""
                          \o Join([j \in 1..Len(ch) |-> SpecifierOf(ValueType(d, ch[j]))], "")
                          \o "\", " \o Join(ch, ", ") \o ");"

(***************************************************************************)
(* C source texts with one allocation statement of p after another         *)
(* statement, on the same line, on the next line, or indented on the next  *)
(* line.                                                                   *)
(***************************************************************************)
PrevStmts == {"int n = 5;", "n = 5;", "{"}

PrevGaps == {" ", "\n", "\n  "}

InitPrev ==
    \E prev \in PrevStmts, gap \in PrevGaps, st \in AllocStmts :
        Begin(prev \o gap \o st, <<"convert_c_to_cpp">>)

SpecPrev == InitPrev /\ [][NextCpp]_vars

\* C17: the rewrite of an allocation statement leaves the text before the
\* statement as it was: the statement before it keeps its semicolon, and
\* the line break and the indentation after that statement stay.
C17_TextBeforeAllocationKept ==
    \A prev \in PrevStmts, gap \in PrevGaps, st \in AllocStmts :
        (pc = "done" /\ src = prev \o gap \o st)
            => StartsWith(ret[1], prev \o gap)

=============================================================================
